---- MODULE Spec2Model ----
(***************************************************************************)
(* Model of Mandelbrot_001.py: the escape-time evaluator iterate_fc, the   *)
(* grid sampler make_coordinates, the orchestration make_set, and the      *)
(* renderer glue save_figure / make_figure.                                *)
(*                                                                         *)
(* Numbers are exact rationals <<n, d>> (d > 0, reduced); complex numbers  *)
(* are records [re, im] of rationals.  Each call of one of the module's    *)
(* functions is one action; a call's arguments, the working directory it   *)
(* finds and the clock it reads are chosen in Init.                        *)
(***************************************************************************)
EXTENDS Integers, Sequences, FiniteSets, TLC

VARIABLES pc, call, ret, cwd, mkdirs, imsaves, evaluated

vars == <<pc, call, ret, cwd, mkdirs, imsaves, evaluated>>

(* ---------------------------- bounds ----------------------------------- *)
MaxIter == 3
MaxGridIter == 2
MaxSteps == 3

(* ------------------------ exact arithmetic ----------------------------- *)
AbsInt(n) == IF n < 0 THEN -n ELSE n

RECURSIVE GCD(_, _)
GCD(a, b) == IF b = 0 THEN a ELSE GCD(b, a % b)

LCM(a, b) == (a \div GCD(a, b)) * b

\* the rational n/d in lowest terms, d > 0
R(n, d) ==
  LET s == IF d < 0 THEN -1 ELSE 1
      g == GCD(AbsInt(n), AbsInt(d))
  IN  <<(s * n) \div g, (s * d) \div g>>

RAdd(a, b) ==
  LET l == LCM(a[2], b[2])
  IN  R(a[1] * (l \div a[2]) + b[1] * (l \div b[2]), l)

RNeg(a) == <<-a[1], a[2]>>
RSub(a, b) == RAdd(a, RNeg(b))
RMul(a, b) == R(a[1] * b[1], a[2] * b[2])
RLess(a, b) ==
  LET l == LCM(a[2], b[2])
  IN  a[1] * (l \div a[2]) < b[1] * (l \div b[2])

complex(x, y) == [re |-> x, im |-> y]
CInt(n) == complex(R(n, 1), R(0, 1))
CAdd(a, b) == complex(RAdd(a.re, b.re), RAdd(a.im, b.im))
CMul(a, b) ==
  complex(RSub(RMul(a.re, b.re), RMul(a.im, b.im)),
          RAdd(RMul(a.re, b.im), RMul(a.im, b.re)))
\* the square of abs(z)
Abs2(z) == RAdd(RMul(z.re, z.re), RMul(z.im, z.im))

(* ---------------------------- iterate_fc ------------------------------- *)
\* abs(z) > 2
EscapedGE(z) == ~ RLess(Abs2(z), R(4, 1))
Escaped(z) == RLess(R(4, 1), Abs2(z))

\* while iters <= max_iter
LoopGuardStrict(iters, max_iter) == iters < max_iter
LoopGuard(iters, max_iter) == iters <= max_iter

\* z = z * z + c
FcStep(z, c) == CAdd(CMul(z, z), c)

\* fc = [z]
InitialFcEmpty(z) == <<>>
InitialFc(z) == <<z>>

\* return max_iter, fc
CapReturnIters(iters, max_iter, fc) == [iters |-> iters, fc |-> fc, line |-> 44]
CapReturn(iters, max_iter, fc) == [iters |-> max_iter, fc |-> fc, line |-> 44]

RECURSIVE IterateFcLoopCheckAfter(_, _, _, _, _)
IterateFcLoopCheckAfter(c, z, fc, iters, max_iter) ==
  IF LoopGuard(iters, max_iter)
  THEN LET z1 == FcStep(z, c)
       IN  IF Escaped(z1)
           THEN [iters |-> iters, fc |-> Append(fc, z1), line |-> 38]
           ELSE IterateFcLoopCheckAfter(c, z1, Append(fc, z1), iters + 1, max_iter)
  ELSE CapReturn(iters, max_iter, fc)

RECURSIVE IterateFcLoop(_, _, _, _, _)
IterateFcLoop(c, z, fc, iters, max_iter) ==
  IF LoopGuard(iters, max_iter)
  THEN IF Escaped(z)
       THEN [iters |-> iters, fc |-> fc, line |-> 38]
       ELSE LET z1 == FcStep(z, c)
            IN  IterateFcLoop(c, z1, Append(fc, z1), iters + 1, max_iter)
  ELSE CapReturn(iters, max_iter, fc)

iterate_fc(c, initial_z, max_iter) ==
  IterateFcLoop(c, initial_z, InitialFc(initial_z), 0, max_iter)

(* -------------------------- make_coordinates --------------------------- *)
\* x0 + step * (x1-x0) / (x_steps-1); the division faults when steps = 1
SpacingFaults(steps) == steps >= 1 /\ steps - 1 = 0

Spaced(lo, hi, steps, step) ==
  RAdd(R(lo, 1), R(step * (hi - lo), steps - 1))

Linspace(lo, hi, steps) ==
  [i \in 1..steps |-> Spaced(lo, hi, steps, i - 1)]

\* for y in ys: for x in xs: zs.append(complex(x, y))
ProductXOuter(xs, ys) ==
  [i \in 1..(Len(xs) * Len(ys)) |->
     complex(xs[((i - 1) \div Len(ys)) + 1], ys[((i - 1) % Len(ys)) + 1])]
Product(xs, ys) ==
  [i \in 1..(Len(xs) * Len(ys)) |->
     complex(xs[((i - 1) % Len(xs)) + 1], ys[((i - 1) \div Len(xs)) + 1])]

SpacedClamped(lo, hi, steps, step) ==
  RAdd(R(lo, 1), R(step * (hi - lo), IF steps = 1 THEN 1 ELSE steps - 1))

make_coordinates_clamped(x_range, y_range, x_steps, y_steps) ==
  [fault |-> "none",
   zs |-> Product([i \in 1..x_steps |-> SpacedClamped(x_range[1], x_range[2], x_steps, i - 1)],
                  [i \in 1..y_steps |-> SpacedClamped(y_range[1], y_range[2], y_steps, i - 1)])]

make_coordinates(x_range, y_range, x_steps, y_steps) ==
  IF SpacingFaults(x_steps) \/ SpacingFaults(y_steps)
  THEN [fault |-> "ZeroDivisionError", zs |-> <<>>]
  ELSE [fault |-> "none",
        zs |-> Product(Linspace(x_range[1], x_range[2], x_steps),
                       Linspace(y_range[1], y_range[2], y_steps))]

(* ------------------------------ make_set ------------------------------- *)
RECURSIVE EvalAllPrepend(_, _, _)
EvalAllPrepend(cs, iters, max_iter) ==
  IF cs = <<>> THEN iters
  ELSE EvalAllPrepend(Tail(cs),
                      <<iterate_fc(Head(cs), CInt(0), max_iter).iters>> \o iters,
                      max_iter)

\* for c in cs: iters.append(iterate_fc(c, 0, max_iter)[0])
RECURSIVE EvalAll(_, _, _)
EvalAll(cs, iters, max_iter) ==
  IF cs = <<>> THEN iters
  ELSE EvalAll(Tail(cs),
               Append(iters, iterate_fc(Head(cs), CInt(0), max_iter).iters),
               max_iter)

make_set(x_range, y_range, x_steps, y_steps, max_iter) ==
  LET m == make_coordinates(x_range, y_range, x_steps, y_steps)
  IN  IF m.fault # "none"
      THEN [fault |-> m.fault, cs |-> <<>>, iters |-> <<>>, evaluated |-> 0]
      ELSE [fault |-> "none", cs |-> m.zs,
            iters |-> EvalAll(m.zs, <<>>, max_iter),
            evaluated |-> Len(m.zs)]

(* ----------------------------- save_figure ----------------------------- *)
None == "None"

\* time.strftime('Mandelbrot_001___%Y-%m-%d___%H-%M-%S.png')
strftime(now) == "Mandelbrot_001___" \o now \o ".png"

\* os.path.join
join(dir, name) == dir \o "/" \o name

\* the keys of a keyword dictionary, given as a set of <<key, value>> pairs
Keys(kwargs) == {kv[1] : kv \in kwargs}

\* np.array(iters).reshape((y_steps, x_steps))
ReshapeFaults(iters, y_steps, x_steps) == Len(iters) # y_steps * x_steps
Reshape(iters, y_steps, x_steps) ==
  [r \in 1..y_steps |-> [k \in 1..x_steps |-> iters[(r - 1) * x_steps + k]]]

\* plt.imsave(fname = fname, arr = arr, origin = 'lower', **kwargs)
ImsaveArgFaults(kwargs) == Keys(kwargs) \cap {"fname", "arr", "origin"} # {}
ImsaveCall(fname, arr, kwargs) ==
  [fname |-> fname, arr |-> arr, opts |-> kwargs \cup {<<"origin", "lower">>}]

save_figure(dir, now, iters, x_steps, y_steps, fname, kwargs) ==
  LET default == fname = None
      made    == IF default /\ "images" \notin dir THEN <<"images">> ELSE <<>>
      dir1    == IF default THEN dir \cup {"images"} ELSE dir
      fname1  == IF default THEN join("images", strftime(now)) ELSE fname
  IN  IF ReshapeFaults(iters, y_steps, x_steps)
      THEN [fault |-> "ValueError", cwd |-> dir1, mkdirs |-> made, imsaves |-> <<>>]
      ELSE IF ImsaveArgFaults(kwargs)
      THEN [fault |-> "TypeError", cwd |-> dir1, mkdirs |-> made, imsaves |-> <<>>]
      ELSE [fault |-> "none",
            cwd |-> IF default THEN dir1 ELSE dir1 \cup {fname1},
            mkdirs |-> made,
            imsaves |-> <<ImsaveCall(fname1, Reshape(iters, y_steps, x_steps), kwargs)>>]

(* ----------------------------- make_figure ----------------------------- *)
\* save_figure(cs, iters, x_steps, y_steps, cmap = cmap)
make_figure(dir, now, x_range, y_range, x_steps, y_steps, max_iter, fname, cmap, kwargs) ==
  LET s == make_set(x_range, y_range, x_steps, y_steps, max_iter)
  IN  IF s.fault # "none"
      THEN [fault |-> s.fault, cwd |-> dir, mkdirs |-> <<>>, imsaves |-> <<>>,
            evaluated |-> s.evaluated]
      ELSE LET f == save_figure(dir, now, s.iters, x_steps, y_steps, None,
                                {<<"cmap", cmap>>})
           IN  [fault |-> f.fault, cwd |-> f.cwd, mkdirs |-> f.mkdirs,
                imsaves |-> f.imsaves, evaluated |-> s.evaluated]

(* ------------------------------- inputs -------------------------------- *)
ReIn == {R(-2, 1), R(-1, 1), R(-1, 2), R(0, 1), R(1, 2), R(10, 1)}
ImIn == {R(-1, 1), R(0, 1), R(1, 2)}
CIn == {complex(x, y) : x \in ReIn, y \in ImIn}
Z0In == {CInt(0), CInt(1), CInt(-2), complex(R(0, 1), R(3, 1))}
MaxIterIn == 0..MaxIter
GridMaxIterIn == 0..MaxGridIter
XRangeIn == {<<-1, 1>>, <<-2, 1>>}
YRangeIn == {<<-1, 1>>, <<0, 1>>}
StepsIn == 0..MaxSteps
FigStepsIn == 1..MaxSteps
FnameIn == {None, "out.png"}
CmapIn == {"hot"}
KwargsIn == {{}, {<<"vmin", 0>>}, {<<"vmin", 0>>, <<"dpi", 72>>}}
SinkKwargsIn == KwargsIn \cup {{<<"cmap", "hot">>}, {<<"origin", "upper">>}}
NowIn == {"2020-01-01___00-00-00", "2020-01-01___00-00-01"}
ItersIn == {<<0, 1>>, <<0, 1, 2, 3>>, <<3, 2, 1, 0, 1, 2>>}

NoArgs ==
  [op |-> "none", c |-> CInt(0), initial_z |-> CInt(0), max_iter |-> 0,
   x_range |-> <<0, 0>>, y_range |-> <<0, 0>>, x_steps |-> 0, y_steps |-> 0,
   iters |-> <<>>, fname |-> None, cmap |-> "hot", kwargs |-> {}, now |-> ""]

Calls ==
  {[NoArgs EXCEPT !.op = "iterate_fc", !.c = c, !.initial_z = z, !.max_iter = m] :
      c \in CIn, z \in Z0In, m \in MaxIterIn}
  \cup
  {[NoArgs EXCEPT !.op = "make_coordinates", !.x_range = xr, !.y_range = yr,
                  !.x_steps = xs, !.y_steps = ys] :
      xr \in XRangeIn, yr \in YRangeIn, xs \in StepsIn, ys \in StepsIn}
  \cup
  {[NoArgs EXCEPT !.op = "make_set", !.x_range = xr, !.y_range = yr,
                  !.x_steps = xs, !.y_steps = ys, !.max_iter = m] :
      xr \in XRangeIn, yr \in YRangeIn, xs \in StepsIn, ys \in StepsIn,
      m \in GridMaxIterIn}
  \cup
  {[NoArgs EXCEPT !.op = "save_figure", !.iters = it, !.x_steps = xs, !.y_steps = ys,
                  !.fname = f, !.kwargs = kw, !.now = t] :
      it \in ItersIn, xs \in 1..2, ys \in 1..3, f \in FnameIn, kw \in SinkKwargsIn,
      t \in NowIn}
  \cup
  {[NoArgs EXCEPT !.op = "make_figure", !.x_range = xr, !.y_range = yr,
                  !.x_steps = xs, !.y_steps = ys, !.max_iter = m,
                  !.fname = f, !.cmap = cm, !.kwargs = kw, !.now = t] :
      xr \in XRangeIn, yr \in YRangeIn, xs \in FigStepsIn, ys \in FigStepsIn,
      m \in GridMaxIterIn, f \in FnameIn, cm \in CmapIn, kw \in KwargsIn, t \in NowIn}

(* ---------------------------- state machine ---------------------------- *)
NoRet == [fault |-> "none", iters |-> -1, fc |-> <<>>, line |-> 0,
          cs |-> <<>>, counts |-> <<>>]

Init ==
  /\ pc = "call"
  /\ call \in Calls
  /\ ret = NoRet
  /\ cwd \in {{}, {"images"}}
  /\ mkdirs = <<>>
  /\ imsaves = <<>>
  /\ evaluated = 0

Call_iterate_fc ==
  /\ pc = "call"
  /\ call.op = "iterate_fc"
  /\ LET r == iterate_fc(call.c, call.initial_z, call.max_iter)
     IN  ret' = [NoRet EXCEPT !.iters = r.iters, !.fc = r.fc, !.line = r.line]
  /\ pc' = "done"
  /\ UNCHANGED <<call, cwd, mkdirs, imsaves, evaluated>>

Call_make_coordinates ==
  /\ pc = "call"
  /\ call.op = "make_coordinates"
  /\ LET r == make_coordinates(call.x_range, call.y_range, call.x_steps, call.y_steps)
     IN  ret' = [NoRet EXCEPT !.fault = r.fault, !.cs = r.zs]
  /\ pc' = "done"
  /\ UNCHANGED <<call, cwd, mkdirs, imsaves, evaluated>>

Call_make_set ==
  /\ pc = "call"
  /\ call.op = "make_set"
  /\ LET r == make_set(call.x_range, call.y_range, call.x_steps, call.y_steps,
                       call.max_iter)
     IN  /\ ret' = [NoRet EXCEPT !.fault = r.fault, !.cs = r.cs, !.counts = r.iters]
         /\ evaluated' = r.evaluated
  /\ pc' = "done"
  /\ UNCHANGED <<call, cwd, mkdirs, imsaves>>

Call_save_figure ==
  /\ pc = "call"
  /\ call.op = "save_figure"
  /\ LET r == save_figure(cwd, call.now, call.iters, call.x_steps, call.y_steps,
                          call.fname, call.kwargs)
     IN  /\ ret' = [NoRet EXCEPT !.fault = r.fault]
         /\ cwd' = r.cwd
         /\ mkdirs' = r.mkdirs
         /\ imsaves' = r.imsaves
  /\ pc' = "done"
  /\ UNCHANGED <<call, evaluated>>

Call_make_figure ==
  /\ pc = "call"
  /\ call.op = "make_figure"
  /\ LET r == make_figure(cwd, call.now, call.x_range, call.y_range, call.x_steps,
                          call.y_steps, call.max_iter, call.fname, call.cmap,
                          call.kwargs)
     IN  /\ ret' = [NoRet EXCEPT !.fault = r.fault]
         /\ cwd' = r.cwd
         /\ mkdirs' = r.mkdirs
         /\ imsaves' = r.imsaves
         /\ evaluated' = r.evaluated
  /\ pc' = "done"
  /\ UNCHANGED call

Next ==
  \/ Call_iterate_fc
  \/ Call_make_coordinates
  \/ Call_make_set
  \/ Call_save_figure
  \/ Call_make_figure

Spec == Init /\ [][Next]_vars

(* ------------------------------- claims -------------------------------- *)
Done(op) == pc = "done" /\ call.op = op

\* magnitude > 2, as the claims mean it
Exceeds2(z) == RLess(R(4, 1), Abs2(z))

\* the orbit of z under z := z*z + c revisits a value before any of its
\* values exceeds magnitude 2, so it never exceeds magnitude 2
RECURSIVE OrbitCycles(_, _, _, _)
OrbitCycles(c, z, seen, fuel) ==
  IF Exceeds2(z) THEN FALSE
  ELSE IF z \in seen THEN TRUE
  ELSE IF fuel = 0 THEN FALSE
  ELSE OrbitCycles(c, CAdd(CMul(z, z), c), seen \cup {z}, fuel - 1)

NeverExceeds2(c, z0) == OrbitCycles(c, z0, {}, MaxIter)

\* C1: the count iterate_fc returns lies in 0..max_iter, and so does every
\* element of the iteration counts make_set returns.
C1_CountInRange ==
  /\ Done("iterate_fc") => ret.iters \in 0..call.max_iter
  /\ Done("make_set") =>
       \A i \in 1..Len(ret.counts) : ret.counts[i] \in 0..call.max_iter

C1_Witness ==
  /\ Done("iterate_fc")
  /\ call.max_iter = 0
  /\ ret.line = 44
  /\ ret.iters = 0

\* C2 (as stated): when |initial_z| <= 2 and the first iterate already has
\* magnitude > 2, iterate_fc returns 0.
C2_Original ==
  (/\ Done("iterate_fc")
   /\ ~ Exceeds2(call.initial_z)
   /\ Exceeds2(CAdd(CMul(call.initial_z, call.initial_z), call.c)))
  => ret.iters = 0

\* C2 (amended): when |initial_z| <= 2 and the first iterate already has
\* magnitude > 2, iterate_fc returns 1 if max_iter >= 1 and 0 if max_iter = 0.
C2_ImmediateEscapeReturnsOne ==
  (/\ Done("iterate_fc")
   /\ ~ Exceeds2(call.initial_z)
   /\ Exceeds2(CAdd(CMul(call.initial_z, call.initial_z), call.c)))
  => ret.iters = (IF call.max_iter >= 1 THEN 1 ELSE 0)

C2_Witness ==
  /\ Done("iterate_fc")
  /\ call.c = CInt(10)
  /\ call.initial_z = CInt(0)
  /\ call.max_iter = 2
  /\ ret.iters = 1

\* C3 (as stated): for c = 0, initial_z = 0, max_iter = M, iterate_fc returns
\* M and a trajectory of exactly M+1 zeros.
C3_Original ==
  (Done("iterate_fc") /\ call.c = CInt(0) /\ call.initial_z = CInt(0))
  => /\ ret.iters = call.max_iter
     /\ Len(ret.fc) = call.max_iter + 1
     /\ \A i \in 1..Len(ret.fc) : ret.fc[i] = CInt(0)

\* C3 (amended): for c = 0, initial_z = 0, max_iter = M, iterate_fc returns
\* M and a trajectory of exactly M+2 zeros.
C3_ZeroOrbit ==
  (Done("iterate_fc") /\ call.c = CInt(0) /\ call.initial_z = CInt(0))
  => /\ ret.iters = call.max_iter
     /\ Len(ret.fc) = call.max_iter + 2
     /\ \A i \in 1..Len(ret.fc) : ret.fc[i] = CInt(0)

C3_Witness ==
  /\ Done("iterate_fc")
  /\ call.c = CInt(0)
  /\ call.initial_z = CInt(0)
  /\ call.max_iter = 2
  /\ Len(ret.fc) = 4

\* C4: make_figure called with an explicit fname writes its one image to
\* exactly that path, and creates no default destination.
C4_ExplicitPathHonoured ==
  (Done("make_figure") /\ ret.fault = "none" /\ call.fname # None)
  => /\ Len(imsaves) = 1
     /\ imsaves[1].fname = call.fname
     /\ mkdirs = <<>>

\* C5: every extra keyword option given to make_figure reaches the imsave
\* call unchanged, alongside the colour map and origin = 'lower'.
C5_KwargsForwarded ==
  (Done("make_figure") /\ ret.fault = "none")
  => /\ Len(imsaves) = 1
     /\ call.kwargs \subseteq imsaves[1].opts
     /\ <<"cmap", call.cmap>> \in imsaves[1].opts
     /\ <<"origin", "lower">> \in imsaves[1].opts

\* C6: when the orbit of initial_z under z := z*z + c never exceeds
\* magnitude 2, iterate_fc returns max_iter.
C6_BoundedOrbitReturnsMaxIter ==
  (Done("iterate_fc") /\ NeverExceeds2(call.c, call.initial_z))
  => ret.iters = call.max_iter

C6_Witness ==
  /\ Done("iterate_fc")
  /\ call.c = CInt(-1)
  /\ call.initial_z = CInt(0)
  /\ call.max_iter = 3
  /\ ret.iters = 3
  /\ ret.fc = <<CInt(0), CInt(-1), CInt(0), CInt(-1), CInt(0)>>

C8_SetIndexAligned ==
  (Done("make_set") /\ call.x_steps >= 2 /\ call.y_steps >= 2)
  => /\ ret.fault = "none"
     /\ Len(ret.cs) = call.x_steps * call.y_steps
     /\ Len(ret.counts) = call.x_steps * call.y_steps
     /\ ret.cs = make_coordinates(call.x_range, call.y_range,
                                  call.x_steps, call.y_steps).zs
     /\ \A i \in 1..Len(ret.cs) :
          ret.counts[i] = iterate_fc(ret.cs[i], CInt(0), call.max_iter).iters

C8_Witness ==
  /\ Done("make_set")
  /\ call.x_steps = 3
  /\ call.y_steps = 2
  /\ call.max_iter = 2
  /\ Len(ret.counts) = 6
  /\ ret.counts[1] # ret.counts[2]

\* C9: a return through the escape branch with count k carries a trajectory
\* of k+1 entries whose last has magnitude > 2 and whose earlier entries have
\* magnitude <= 2; in every return no entry but the last has magnitude > 2.
C9_EscapeIndex ==
  Done("iterate_fc")
  => /\ ret.line = 38 =>
          /\ Len(ret.fc) = ret.iters + 1
          /\ Exceeds2(ret.fc[ret.iters + 1])
          /\ \A i \in 1..ret.iters : ~ Exceeds2(ret.fc[i])
     /\ \A i \in 1..(Len(ret.fc) - 1) : ~ Exceeds2(ret.fc[i])

C9_Witness ==
  /\ Done("iterate_fc")
  /\ ret.line = 38
  /\ ret.iters = 2
  /\ Len(ret.fc) = 3
  /\ Exceeds2(ret.fc[3])

\* C10: with x_steps = 1 or y_steps = 1, make_coordinates faults with a
\* division by zero and returns nothing; through make_set and make_figure no
\* point is evaluated, no directory is created and no image is written.
C10_DegenerateStepsFault ==
  (/\ pc = "done"
   /\ call.op \in {"make_coordinates", "make_set", "make_figure"}
   /\ (call.x_steps = 1 \/ call.y_steps = 1))
  => /\ ret.fault = "ZeroDivisionError"
     /\ ret.cs = <<>>
     /\ ret.counts = <<>>
     /\ evaluated = 0
     /\ mkdirs = <<>>
     /\ imsaves = <<>>

C10_Witness ==
  /\ Done("make_figure")
  /\ call.x_steps = 3
  /\ call.y_steps = 1
  /\ ret.fault = "ZeroDivisionError"
  /\ "images" \notin cwd
  /\ imsaves = <<>>

====
